---- MODULE Spec2Model ----
(***************************************************************************)
(* Model of the attribute macro #[diff_enum::common_fields { ... }]        *)
(* (src/src/lib.rs).  One behaviour is one macro invocation: the token     *)
(* streams `attr` and `item` are fixed by Init, the steps of               *)
(* common_fields run in program order, and a successful expansion is then  *)
(* used the way tests/lib.rs uses it: an instance of a variant is          *)
(* constructed and a generated accessor is called on it.                   *)
(*                                                                         *)
(* Token streams are abstracted to the structure syn reads out of them.    *)
(* A field token group is [attrs, ident, colon, ty]; a group with          *)
(* colon = FALSE (`x i32`) does not parse as a named field.                *)
(***************************************************************************)
EXTENDS Integers, Sequences, FiniteSets, TLC

\* ------------------------------------------------------------------ bounds
MaxShared == 2
MaxVariants == 2

\* ------------------------------------------------------ Option and Result
None == <<>>
Some(v) == <<v>>
IsSome(o) == o # <<>>
Unwrap(o) == o[1]

Ok(v) == [ok |-> TRUE, val |-> <<v>>, err |-> <<>>]
Err(e) == [ok |-> FALSE, val |-> <<>>, err |-> <<e>>]

\* The panics of lib.rs, by the error class the specification gives them.
Diag(kind, variant) == [kind |-> kind, variant |-> variant]
MalformedSharedFields == Diag("MalformedSharedFields", "")
EmptySharedFields == Diag("EmptySharedFields", "")
NotAnItem == Diag("NotAnItem", "")
NotAnEnum == Diag("NotAnEnum", "")
PositionalFieldConflict(name) == Diag("PositionalFieldConflict", name)

\* ------------------------------------------------------------ input pools
SeqsUpTo(S, n) == UNION {[1..k -> S] : k \in 0..n}

FieldTok(attrs, ident, colon, ty) ==
    [attrs |-> attrs, ident |-> ident, colon |-> colon, ty |-> ty]

\* Token groups that may appear in the macro argument.
SharedToks ==
    { FieldTok(<<>>, "x", TRUE, "i32"),
      FieldTok(<<"doc(hidden)">>, "x", TRUE, "i32"),
      FieldTok(<<>>, "y", TRUE, "bool"),
      FieldTok(<<>>, "x", FALSE, "i32") }

AttrStreams == SeqsUpTo(SharedToks, MaxShared)

\* Variant payloads as written by the user: none, braces, parentheses.
\* The variant-specific fields `x: bool` and `y: u8` collide with the
\* shared names x and y.  No field carries a cfg attribute, so the
\* fields rustc sees do not depend on the build.
Payloads ==
    { [delim |-> "none", elems |-> <<>>],
      [delim |-> "brace", elems |-> <<>>],
      [delim |-> "brace", elems |-> <<FieldTok(<<>>, "b", TRUE, "bool")>>],
      [delim |-> "brace", elems |-> <<FieldTok(<<>>, "x", TRUE, "bool")>>],
      [delim |-> "brace", elems |-> <<FieldTok(<<"allow(dead_code)">>, "y", TRUE, "u8"),
                                      FieldTok(<<>>, "b", TRUE, "bool")>>],
      [delim |-> "paren", elems |-> <<>>],
      [delim |-> "paren", elems |-> <<FieldTok(<<>>, "", FALSE, "i32")>>] }

\* Variants are named by position, so the names of an enum are distinct.
VariantNames == <<"A", "B", "C", "D">>

EnumBodies ==
    UNION { { [i \in 1..k |-> [ident |-> VariantNames[i],
                               delim |-> p[i].delim,
                               elems |-> p[i].elems]] : p \in [1..k -> Payloads] }
            : k \in 0..MaxVariants }

\* Name, visibility and outer attributes of the annotated item.
Metas ==
    { [vis |-> "pub", attrs |-> <<>>, ident |-> "E"],
      [vis |-> "inherited", attrs |-> <<"derive(Debug)">>, ident |-> "F"] }

ItemTok(kind, m, body) ==
    [kind |-> kind, attrs |-> m.attrs, vis |-> m.vis, ident |-> m.ident, body |-> body]

\* Enums, and items that are not enums: a struct, a union, a function
\* (no DeriveInput) and tokens that are no item at all.
ItemStreams ==
    { ItemTok("enum", m, b) : m \in Metas, b \in EnumBodies }
    \cup { ItemTok(k, [vis |-> "pub", attrs |-> <<>>, ident |-> "S"], <<>>)
             : k \in {"struct", "union", "fn", "garbage"} }

Values == {12, 42}

\* ---------------------------------------------------------------- state
VARIABLES
    attr,            \* the macro argument (token stream)
    item,            \* the annotated item (token stream)
    pc,              \* position in common_fields, then in the test body
    shared,          \* Option<FieldsNamed>
    input,           \* Option<DeriveInput>
    impl_accessors,  \* Option<impl block>
    expanded_enum,   \* Option<rewritten DeriveInput>
    tokens,          \* Option<emitted output>
    error,           \* Option<panic diagnostic>
    inst,            \* Option<constructed instance>
    result           \* Option<value returned by the accessor called>

vars == <<attr, item, pc, shared, input, impl_accessors, expanded_enum,
          tokens, error, inst, result>>

\* ------------------------------------------------ parse_shared_fields
Field(attrs, ident, ty) ==
    [attrs |-> attrs, vis |-> "inherited", ident |-> ident, ty |-> ty]

ParseNamedField(t) == Field(t.attrs, t.ident, t.ty)

\* syn::parse::<FieldsNamed> of the braced argument.
ParseSharedFields(a) ==
    IF \E i \in 1..Len(a) : ~a[i].colon \/ a[i].ident = ""
    THEN Err(MalformedSharedFields)
    ELSE Ok([named |-> [i \in 1..Len(a) |-> ParseNamedField(a[i])]])

\* ------------------------------------------------ syn::parse::<DeriveInput>
FieldsUnit == [shape |-> "Unit", named |-> <<>>, unnamed |-> <<>>]
FieldsNamed(fs) == [shape |-> "Named", named |-> fs, unnamed |-> <<>>]
FieldsUnnamed(fs) == [shape |-> "Unnamed", named |-> <<>>, unnamed |-> fs]

ParseFields(delim, elems) ==
    CASE delim = "none" -> FieldsUnit
      [] delim = "brace" ->
            FieldsNamed([i \in 1..Len(elems) |-> ParseNamedField(elems[i])])
      [] delim = "paren" ->
            FieldsUnnamed([i \in 1..Len(elems) |-> Field(elems[i].attrs, "", elems[i].ty)])

ParseVariant(v) == [ident |-> v.ident, fields |-> ParseFields(v.delim, v.elems)]

DeriveInput(it, data) ==
    [attrs |-> it.attrs, vis |-> it.vis, ident |-> it.ident, data |-> data]

\* Faulty alternative: the item parsed as an enum item only, so that a struct or a
\* union is a parse error.
ParseItemEnumOnly(it) ==
    IF it.kind = "enum"
    THEN Ok(DeriveInput(it,
              [kind |-> "Enum",
               variants |-> [i \in 1..Len(it.body) |-> ParseVariant(it.body[i])]]))
    ELSE Err(NotAnItem)

ParseItem(it) ==
    CASE it.kind = "enum" ->
            Ok(DeriveInput(it,
                 [kind |-> "Enum",
                  variants |-> [i \in 1..Len(it.body) |-> ParseVariant(it.body[i])]]))
      [] it.kind = "struct" ->
            Ok(DeriveInput(it, [kind |-> "Struct", variants |-> <<>>]))
      [] it.kind = "union" ->
            Ok(DeriveInput(it, [kind |-> "Union", variants |-> <<>>]))
      [] OTHER -> Err(NotAnItem)

\* ------------------------------------------------ expand_shared_fields
\* Faulty alternative: the shared fields inserted in front of the variant's own.
ExpandVariantPrepend(sh, variant) ==
    CASE variant.fields.shape = "Named" ->
            Ok([variant EXCEPT !.fields.named = sh.named \o @])
      [] variant.fields.shape = "Unnamed" ->
            Err(PositionalFieldConflict(variant.ident))
      [] variant.fields.shape = "Unit" ->
            Ok([variant EXCEPT !.fields = FieldsNamed(sh.named)])

\* Faulty alternative: a shared field is skipped when the variant declares its name.
ExpandVariantDedup(sh, variant) ==
    CASE variant.fields.shape = "Named" ->
            Ok([variant EXCEPT !.fields.named =
                  @ \o SelectSeq(sh.named,
                         LAMBDA f : f.ident \notin
                            {variant.fields.named[i].ident
                               : i \in 1..Len(variant.fields.named)})])
      [] variant.fields.shape = "Unnamed" ->
            Err(PositionalFieldConflict(variant.ident))
      [] variant.fields.shape = "Unit" ->
            Ok([variant EXCEPT !.fields = FieldsNamed(sh.named)])

ExpandVariant(sh, variant) ==
    CASE variant.fields.shape = "Named" ->
            Ok([variant EXCEPT !.fields.named = @ \o sh.named])
      [] variant.fields.shape = "Unnamed" ->
            Err(PositionalFieldConflict(variant.ident))
      [] variant.fields.shape = "Unit" ->
            Ok([variant EXCEPT !.fields = FieldsNamed(sh.named)])

\* Faulty alternative: the loop runs over the variants in reverse, so the panic
\* names the last positional-field variant.
ExpandVariantsReversed(sh, variants, done) ==
    LET bad == {i \in 1..Len(variants) : ~ExpandVariant(sh, variants[i]).ok}
    IN  IF bad = {}
        THEN Ok([i \in 1..Len(variants) |-> Unwrap(ExpandVariant(sh, variants[i]).val)])
        ELSE ExpandVariant(sh, variants[CHOOSE i \in bad : \A k \in bad : k <= i])

\* The loop over enum_.variants.iter_mut(): `done` holds the variants
\* already rewritten; the first panic ends the loop.
RECURSIVE ExpandVariants(_, _, _)
ExpandVariants(sh, variants, done) ==
    IF Len(done) = Len(variants)
    THEN Ok(done)
    ELSE LET r == ExpandVariant(sh, variants[Len(done) + 1])
         IN  IF r.ok
             THEN ExpandVariants(sh, variants, Append(done, Unwrap(r.val)))
             ELSE r

\* Faulty alternative: the enum is re-emitted without its outer attributes.
ExpandSharedFieldsNoAttrs(sh, inp) ==
    IF inp.data.kind # "Enum"
    THEN Err(NotAnEnum)
    ELSE LET r == ExpandVariants(sh, inp.data.variants, <<>>)
         IN  IF r.ok
             THEN Ok([inp EXCEPT !.data.variants = Unwrap(r.val), !.attrs = <<>>])
             ELSE r

ExpandSharedFields(sh, inp) ==
    IF inp.data.kind # "Enum"
    THEN Err(NotAnEnum)
    ELSE LET r == ExpandVariants(sh, inp.data.variants, <<>>)
         IN  IF r.ok
             THEN Ok([inp EXCEPT !.data.variants = Unwrap(r.val)])
             ELSE r

\* ------------------------------------------------ generate_accessors
\* Faulty alternative: the arm binds the first field the variant declares itself.
ArmFirstField(enum_name, variant, field_name) ==
    LET f == IF Len(variant.fields.named) > 0
             THEN variant.fields.named[1].ident
             ELSE field_name
    IN  [path |-> <<enum_name, variant.ident>>, bind |-> f, body |-> f]

Arm(enum_name, variant, field_name) ==
    [path |-> <<enum_name, variant.ident>>, bind |-> field_name, body |-> field_name]

\* Faulty alternative: arms are generated for the variants that had named fields
\* already, not for the payload-less ones.
AccessorNamedOnly(enum_name, variants, field) ==
    LET named == SelectSeq(variants, LAMBDA v : v.fields.shape = "Named")
    IN  [attrs |-> <<"inline", "allow(dead_code)">>,
         vis |-> "pub",
         name |-> field.ident,
         ret |-> <<"&", field.ty>>,
         arms |-> [j \in 1..Len(named) |-> Arm(enum_name, named[j], field.ident)]]

Accessor(enum_name, variants, field) ==
    [attrs |-> <<"inline", "allow(dead_code)">>,
     vis |-> "pub",
     name |-> field.ident,
     ret |-> <<"&", field.ty>>,
     arms |-> [j \in 1..Len(variants) |-> Arm(enum_name, variants[j], field.ident)]]

GenerateAccessors(sh, inp, enum_name) ==
    IF inp.data.kind # "Enum"
    THEN Err(NotAnEnum)
    ELSE Ok([self_ty |-> enum_name,
             fns |-> [i \in 1..Len(sh.named) |->
                        Accessor(enum_name, inp.data.variants, sh.named[i])]])

\* ------------------------------------------------ common_fields, step by step
Panic(e) ==
    /\ pc' = "fatal"
    /\ error' = Some(e)

\* Faulty alternative: an argument that does not parse is taken as an empty list.
StepParseSharedLenient ==
    /\ pc = "parse_shared"
    /\ LET r == ParseSharedFields(attr)
       IN  shared' = IF r.ok THEN r.val ELSE Some([named |-> <<>>])
    /\ pc' = "check_empty"
    /\ UNCHANGED <<attr, item, input, impl_accessors, expanded_enum, tokens,
                   error, inst, result>>

StepParseShared ==
    /\ pc = "parse_shared"
    /\ LET r == ParseSharedFields(attr)
       IN  IF r.ok
           THEN /\ shared' = r.val
                /\ pc' = "check_empty"
                /\ UNCHANGED error
           ELSE /\ Panic(Unwrap(r.err))
                /\ UNCHANGED shared
    /\ UNCHANGED <<attr, item, input, impl_accessors, expanded_enum, tokens, inst, result>>

\* Faulty alternative: the emptiness check is missing.
StepCheckEmptySkip ==
    /\ pc = "check_empty"
    /\ pc' = "parse_item"
    /\ UNCHANGED <<attr, item, shared, input, impl_accessors, expanded_enum,
                   tokens, error, inst, result>>

StepCheckEmpty ==
    /\ pc = "check_empty"
    /\ IF Len(Unwrap(shared).named) = 0
       THEN Panic(EmptySharedFields)
       ELSE /\ pc' = "parse_item"
            /\ UNCHANGED error
    /\ UNCHANGED <<attr, item, shared, input, impl_accessors, expanded_enum, tokens, inst, result>>

\* Faulty alternative: the accessors are generated after the expansion, which is
\* reached straight from the parse.
StepParseItemThenExpand ==
    /\ pc = "parse_item"
    /\ LET r == ParseItem(item)
       IN  IF r.ok
           THEN /\ input' = r.val
                /\ pc' = "expand"
                /\ UNCHANGED error
           ELSE /\ Panic(Unwrap(r.err))
                /\ UNCHANGED input
    /\ UNCHANGED <<attr, item, shared, impl_accessors, expanded_enum, tokens, inst, result>>

StepParseItem ==
    /\ pc = "parse_item"
    /\ LET r == ParseItem(item)
       IN  IF r.ok
           THEN /\ input' = r.val
                /\ pc' = "generate"
                /\ UNCHANGED error
           ELSE /\ Panic(Unwrap(r.err))
                /\ UNCHANGED input
    /\ UNCHANGED <<attr, item, shared, impl_accessors, expanded_enum, tokens, inst, result>>

StepGenerate ==
    /\ pc = "generate"
    /\ LET r == GenerateAccessors(Unwrap(shared), Unwrap(input), Unwrap(input).ident)
       IN  IF r.ok
           THEN /\ impl_accessors' = r.val
                /\ pc' = "expand"
                /\ UNCHANGED error
           ELSE /\ Panic(Unwrap(r.err))
                /\ UNCHANGED impl_accessors
    /\ UNCHANGED <<attr, item, shared, input, expanded_enum, tokens, inst, result>>

\* `input` is moved into expand_shared_fields: the binding is gone afterwards.
StepExpand ==
    /\ pc = "expand"
    /\ LET r == ExpandSharedFields(Unwrap(shared), Unwrap(input))
       IN  IF r.ok
           THEN /\ expanded_enum' = r.val
                /\ pc' = "emit"
                /\ UNCHANGED error
           ELSE /\ Panic(Unwrap(r.err))
                /\ UNCHANGED expanded_enum
    /\ input' = None
    /\ UNCHANGED <<attr, item, shared, impl_accessors, tokens, inst, result>>

StepEmit ==
    /\ pc = "emit"
    /\ tokens' = Some([enum |-> Unwrap(expanded_enum), impl |-> Unwrap(impl_accessors)])
    /\ pc' = "done"
    /\ UNCHANGED <<attr, item, shared, input, impl_accessors, expanded_enum, error, inst, result>>

\* ------------------------------------------------ use of the expansion
\* What rustc demands of the expansion before any instance can be built:
\* no variant declares a field name twice, no two methods of the impl
\* share a name, every arm names a variant and binds a field it has, and
\* the match is exhaustive: every variant has an arm, and there is at
\* least one arm, because `match self { }` on `&self` is rejected even
\* for an enum without variants (a reference is always inhabited).
FieldNames(fs) == {fs[i].ident : i \in 1..Len(fs)}
Distinct(s) == \A i, j \in 1..Len(s) : i # j => s[i] # s[j]
Idents(fs) == [i \in 1..Len(fs) |-> fs[i].ident]

ArmsOk(fn, variants) ==
    /\ Len(fn.arms) > 0
    /\ \A j \in 1..Len(fn.arms) :
          \E v \in 1..Len(variants) :
             /\ variants[v].ident = fn.arms[j].path[2]
             /\ fn.arms[j].bind \in FieldNames(variants[v].fields.named)
             /\ fn.arms[j].body = fn.arms[j].bind
    /\ \A v \in 1..Len(variants) :
          \E j \in 1..Len(fn.arms) : fn.arms[j].path[2] = variants[v].ident

Compiles(out) ==
    /\ \A v \in 1..Len(out.enum.data.variants) :
          /\ out.enum.data.variants[v].fields.shape = "Named"
          /\ Distinct(Idents(out.enum.data.variants[v].fields.named))
    /\ Distinct([i \in 1..Len(out.impl.fns) |-> out.impl.fns[i].name])
    /\ \A i \in 1..Len(out.impl.fns) : ArmsOk(out.impl.fns[i], out.enum.data.variants)

\* `match self { ... }`: the first arm whose path names the instance's
\* variant yields the value of the field it binds.
EvalAccessor(fn, instance) ==
    LET hits == {j \in 1..Len(fn.arms) : fn.arms[j].path[2] = instance.variant}
        first == CHOOSE j \in hits : \A k \in hits : j <= k
    IN  instance.fields[fn.arms[first].body]

\* let e = E::V { f1: v1, ... };
Construct ==
    /\ pc = "done"
    /\ Compiles(Unwrap(tokens))
    /\ \E v \in 1..Len(Unwrap(tokens).enum.data.variants) :
         LET variant == Unwrap(tokens).enum.data.variants[v]
         IN  \E vals \in [FieldNames(variant.fields.named) -> Values] :
                inst' = Some([variant |-> variant.ident, fields |-> vals])
    /\ pc' = "constructed"
    /\ UNCHANGED <<attr, item, shared, input, impl_accessors, expanded_enum,
                   tokens, error, result>>

\* e.f()
CallAccessor ==
    /\ pc = "constructed"
    /\ \E i \in 1..Len(Unwrap(tokens).impl.fns) :
         LET fn == Unwrap(tokens).impl.fns[i]
         IN  result' = Some([fn |-> fn.name, ret |-> EvalAccessor(fn, Unwrap(inst))])
    /\ pc' = "called"
    /\ UNCHANGED <<attr, item, shared, input, impl_accessors, expanded_enum,
                   tokens, error, inst>>

CommonFields ==
    \/ StepParseShared
    \/ StepCheckEmpty
    \/ StepParseItem
    \/ StepGenerate
    \/ StepExpand
    \/ StepEmit

Init ==
    /\ attr \in AttrStreams
    /\ item \in ItemStreams
    /\ pc = "parse_shared"
    /\ shared = None
    /\ input = None
    /\ impl_accessors = None
    /\ expanded_enum = None
    /\ tokens = None
    /\ error = None
    /\ inst = None
    /\ result = None

Next ==
    \/ StepParseShared
    \/ StepCheckEmpty
    \/ StepParseItem
    \/ StepGenerate
    \/ StepExpand
    \/ StepEmit
    \/ Construct
    \/ CallAccessor

Spec == Init /\ [][Next]_vars

\* =================================================================
\* Properties.  They are stated over the raw token streams `attr` and
\* `item`, which no step changes, and the state the steps produce.
\* =================================================================
Succeeded == pc \in {"done", "constructed", "called"}
Finished == Succeeded \/ pc = "fatal"

WellFormed == \A i \in 1..Len(attr) : attr[i].colon /\ attr[i].ident # ""
SharedOk == WellFormed /\ Len(attr) > 0
IsEnum == item.kind = "enum"
Positional == {i \in 1..Len(item.body) : item.body[i].delim = "paren"}
Valid == SharedOk /\ IsEnum /\ Positional = {}

\* The fields the user wrote in variant i (none for a payload-less one).
Own(i) == IF item.body[i].delim = "brace" THEN item.body[i].elems ELSE <<>>
NameTy(fs) == [i \in 1..Len(fs) |-> <<fs[i].ident, fs[i].ty>>]
NameTyAttrs(fs) == [i \in 1..Len(fs) |-> <<fs[i].ident, fs[i].ty, fs[i].attrs>>]
OutEnum == Unwrap(tokens).enum
OutImpl == Unwrap(tokens).impl
OutFields(i) == OutEnum.data.variants[i].fields

\* C1: with a non-empty shared list S and an enum of payload-less and
\* named-field variants only, the expansion succeeds and every output
\* variant has a named-field payload that is its own fields, in order,
\* followed by S in order, names and types as declared; so every
\* variant's field names include the shared names.
C1_InjectionOrder ==
    (Valid /\ Finished) =>
        /\ Succeeded
        /\ IsSome(tokens)
        /\ Len(OutEnum.data.variants) = Len(item.body)
        /\ \A i \in 1..Len(item.body) :
              /\ OutFields(i).shape = "Named"
              /\ NameTy(OutFields(i).named) = NameTy(Own(i)) \o NameTy(attr)
              /\ {attr[k].ident : k \in 1..Len(attr)} \subseteq FieldNames(OutFields(i).named)

C1_Witness ==
    /\ pc = "done"
    /\ Len(attr) = 2
    /\ \E i, j \in 1..Len(item.body) :
          /\ item.body[i].delim = "none"
          /\ item.body[j].delim = "brace" /\ Len(item.body[j].elems) = 1
          /\ Len(OutFields(i).named) = 2
          /\ Len(OutFields(j).named) = 3

\* C2: on an instance of any variant of a successfully expanded enum,
\* the accessor of shared field f returns the value given to f when the
\* instance was constructed.
C2_AccessorReturnsField ==
    pc = "called" =>
        /\ Unwrap(result).fn \in {attr[k].ident : k \in 1..Len(attr)}
        /\ Unwrap(result).ret = Unwrap(inst).fields[Unwrap(result).fn]

C2_Witness ==
    /\ pc = "called"
    /\ Len(attr) = 2
    /\ Unwrap(result).fn = "y"
    /\ Unwrap(inst).variant = "B"
    /\ item.body[2].delim = "brace" /\ Len(item.body[2].elems) = 1
    /\ item.body[1].delim = "none"
    /\ Unwrap(inst).fields["x"] = 42
    /\ Unwrap(inst).fields["b"] = 12
    /\ Unwrap(result).ret = 12

\* C3: an argument that parses to zero shared fields ends in
\* EmptySharedFields with nothing emitted, whatever the item is.
C3_EmptyShared ==
    Len(attr) = 0 =>
        /\ tokens = None
        /\ ~Succeeded
        /\ pc \in {"parse_shared", "check_empty", "fatal"}
        /\ pc = "fatal" => error = Some(EmptySharedFields)

C3_Witness ==
    /\ Len(attr) = 0
    /\ pc = "fatal"
    /\ item.kind = "enum"
    /\ Len(item.body) = 2
    /\ Positional = {2}

\* C4: with a non-empty shared list, an enum with a positional-field
\* variant ends in PositionalFieldConflict naming the first such variant
\* in declaration order, with nothing emitted.
C4_PositionalConflict ==
    (SharedOk /\ IsEnum /\ Positional # {}) =>
        /\ tokens = None
        /\ ~Succeeded
        /\ Finished =>
              LET first == CHOOSE i \in Positional : \A k \in Positional : i <= k
              IN  error = Some(PositionalFieldConflict(item.body[first].ident))

C4_Witness ==
    /\ pc = "fatal"
    /\ SharedOk
    /\ IsEnum
    /\ Positional = {2}
    /\ item.body[1].delim = "brace"
    /\ error = Some(PositionalFieldConflict("B"))

\* C5: with a non-empty shared list, an item that parses but is not an
\* enum ends in NotAnEnum with neither definition nor accessor emitted.
C5_NotAnEnum ==
    (SharedOk /\ item.kind \in {"struct", "union"}) =>
        /\ tokens = None
        /\ expanded_enum = None
        /\ impl_accessors = None
        /\ ~Succeeded
        /\ Finished => error = Some(NotAnEnum)

C5_Witness ==
    /\ pc = "fatal"
    /\ SharedOk
    /\ item.kind = "struct"
    /\ error = Some(NotAnEnum)

\* C6: on success only the variants' payloads change: name, visibility,
\* outer attributes, and the number, order and names of the variants are
\* the input's, each variant's own fields are unchanged, and the
\* attributes of a shared field are on its copy in every variant.
C6_PassThrough ==
    Succeeded =>
        /\ OutEnum.ident = item.ident
        /\ OutEnum.vis = item.vis
        /\ OutEnum.attrs = item.attrs
        /\ OutEnum.data.kind = "Enum"
        /\ Len(OutEnum.data.variants) = Len(item.body)
        /\ \A i \in 1..Len(item.body) :
              /\ OutEnum.data.variants[i].ident = item.body[i].ident
              /\ Len(OutFields(i).named) = Len(Own(i)) + Len(attr)
              /\ NameTyAttrs(SubSeq(OutFields(i).named, 1, Len(Own(i))))
                    = NameTyAttrs(Own(i))
              /\ \A k \in 1..Len(attr) :
                    OutFields(i).named[Len(Own(i)) + k].attrs = attr[k].attrs

C6_Witness ==
    /\ pc = "done"
    /\ item.attrs = <<"derive(Debug)">>
    /\ Len(item.body) = 2
    /\ Len(Own(1)) = 1
    /\ attr[1].attrs = <<"doc(hidden)">>
    /\ OutFields(1).named[2].attrs = <<"doc(hidden)">>
    /\ OutFields(2).named[1].attrs = <<"doc(hidden)">>

\* C7: on success there is exactly one accessor per shared field, in the
\* shared list's order, named after the field and returning a reference
\* of its type, and each accessor has exactly one arm per variant of the
\* output enum, in declaration order.
C7_AccessorLayout ==
    Succeeded =>
        /\ OutImpl.self_ty = OutEnum.ident
        /\ Len(OutImpl.fns) = Len(attr)
        /\ \A i \in 1..Len(attr) :
              /\ OutImpl.fns[i].name = attr[i].ident
              /\ OutImpl.fns[i].ret = <<"&", attr[i].ty>>
              /\ Len(OutImpl.fns[i].arms) = Len(OutEnum.data.variants)
              /\ \A j \in 1..Len(OutEnum.data.variants) :
                    /\ OutImpl.fns[i].arms[j].path
                          = <<OutEnum.ident, OutEnum.data.variants[j].ident>>
                    /\ OutImpl.fns[i].arms[j].bind = attr[i].ident
                    /\ OutImpl.fns[i].arms[j].body = attr[i].ident

C7_Witness ==
    /\ pc = "done"
    /\ Len(attr) = 2
    /\ attr[1].ident = "y"
    /\ attr[2].ident = "x"
    /\ Len(item.body) = 2
    /\ OutImpl.fns[1].name = "y"
    /\ OutImpl.fns[2].arms[2].path = <<"F", "B">>

\* C8 as stated: the Accessor Generator starts only after the Field
\* Injector has completed, and reads the post-injection definition.
C8_GeneratorAfterInjector ==
    IsSome(impl_accessors) => IsSome(expanded_enum)

\* C8 amended: the Accessor Generator runs after both parsers and before
\* the Field Injector; the definition it reads is the parsed item with
\* the payloads the user wrote, and the Field Injector has produced
\* nothing until the generator has completed.
C8_InjectorAfterGenerator ==
    /\ IsSome(expanded_enum) => IsSome(impl_accessors)
    /\ IsSome(impl_accessors) => IsSome(shared) /\ pc \notin {"parse_shared", "check_empty", "parse_item", "generate"}
    /\ IsSome(input) => IsSome(shared)
    /\ pc = "generate" =>
          /\ expanded_enum = None
          /\ IsSome(input)
          /\ Unwrap(input).data.kind = "Enum" =>
                \A i \in 1..Len(item.body) :
                   Unwrap(input).data.variants[i].fields
                      = ParseFields(item.body[i].delim, item.body[i].elems)
    /\ pc = "expand" => IsSome(impl_accessors) /\ expanded_enum = None

C8_Witness ==
    /\ pc = "expand"
    /\ IsSome(impl_accessors)
    /\ expanded_enum = None
    /\ Len(item.body) = 2
    /\ item.body[1].delim = "none"
    /\ Unwrap(input).data.variants[1].fields.shape = "Unit"

\* The first failing check, in the order: malformed shared fields, empty
\* shared fields, item does not parse, item is not an enum,
\* positional-field variant.
FirstFailure ==
    IF ~WellFormed THEN "MalformedSharedFields"
    ELSE IF Len(attr) = 0 THEN "EmptySharedFields"
    ELSE IF item.kind \notin {"enum", "struct", "union"} THEN "NotAnItem"
    ELSE IF item.kind # "enum" THEN "NotAnEnum"
    ELSE IF Positional # {} THEN "PositionalFieldConflict"
    ELSE "none"

\* C9: an invocation ends in Success (definition plus accessors) or in
\* Fatal (one diagnostic), never both; after a failure no step runs and
\* nothing is emitted, and the diagnostic is that of the first failing
\* check.
C9_FailFast ==
    /\ Finished \/ ENABLED CommonFields
    /\ Finished => ~ENABLED CommonFields
    /\ Succeeded <=> IsSome(tokens)
    /\ pc = "fatal" <=> IsSome(error)
    /\ ~(IsSome(tokens) /\ IsSome(error))
    /\ pc = "fatal" => ~ENABLED Next /\ Unwrap(error).kind = FirstFailure
    /\ Succeeded => FirstFailure = "none"

C9_Witness ==
    /\ pc = "fatal"
    /\ ~WellFormed
    /\ Len(attr) = 2
    /\ attr[1].colon
    /\ item.kind = "garbage"
    /\ error = Some(MalformedSharedFields)

\* C10: when a named-field variant already declares a field with the
\* name of a shared field, no error is raised, the shared field is still
\* appended after the variant's own fields, and the output variant has
\* two fields of that name, its own first.
C10_NoDuplicateDetection ==
    (Valid /\ Finished) =>
        /\ Succeeded
        /\ \A i \in 1..Len(item.body) : \A o \in 1..Len(Own(i)) : \A k \in 1..Len(attr) :
              Own(i)[o].ident = attr[k].ident =>
                 /\ Len(OutFields(i).named) = Len(Own(i)) + Len(attr)
                 /\ OutFields(i).named[o].ident = attr[k].ident
                 /\ OutFields(i).named[o].ty = Own(i)[o].ty
                 /\ OutFields(i).named[Len(Own(i)) + k].ident = attr[k].ident
                 /\ OutFields(i).named[Len(Own(i)) + k].ty = attr[k].ty
                 /\ o < Len(Own(i)) + k

C10_Witness ==
    /\ pc = "done"
    /\ Len(item.body) = 1
    /\ Own(1) = <<FieldTok(<<>>, "x", TRUE, "bool")>>
    /\ attr = <<FieldTok(<<>>, "x", TRUE, "i32")>>
    /\ NameTy(OutFields(1).named) = << <<"x", "bool">>, <<"x", "i32">> >>
====
